---- MODULE Spec2Model ----
(***************************************************************************)
(* Model of the market-report pipeline: the market-data provider           *)
(* (data_scrapers.py), the three tool functions and the agent declarations *)
(* (agents.py) and the report server (flask_api.py).                       *)
(*                                                                         *)
(* Numbers are fixed point.  A closing price is an integer number of       *)
(* thousandths (mills); a value rounded by round(x, 2) is an integer       *)
(* number of hundredths.                                                   *)
(***************************************************************************)
EXTENDS Integers, Sequences, FiniteSets, TLC

VARIABLES
    hist,          \* the provider on its own: what the quote API answers, per index
    stock_data,    \* the provider on its own: what get_stock_quotes returned (<< >> before)
    report_path,   \* os.getenv("REPORT_PATH"), the same for the pipeline and the server
    running,       \* "active", "done" or "aborted": the run of the workflow
    current_agent, \* the active stage
    trail,         \* the stages that have been active in this run, in order
    state,         \* the workflow's shared state (ctx "state")
    wrote,         \* the fields of state their tool has stored in this run
    lastCall,      \* the latest finished tool call: what it read, did and returned
    lastHandoff,   \* the latest hand-off request and whether it was taken
    fmt,           \* format_report's position while it writes the file
    file,          \* the file at REPORT_PATH: NoFile, or the document and how much of it is written
    req,           \* the server's request in flight
    response       \* the server's latest response

quoteVars == <<hist, stock_data>>

runVars == <<running, current_agent, trail, state, wrote, lastCall, lastHandoff, fmt>>

serverVars == <<req, response>>

vars == <<hist, stock_data, report_path, running, current_agent, trail, state, wrote,
          lastCall, lastHandoff, fmt, file, req, response>>

(***************************************************************************)
(* Bounds of the model.                                                    *)
(***************************************************************************)
\* closing prices range over BaseMills .. BaseMills + MaxMills (and the scenario's two prices)
MaxMills == 3

\* the number of write steps in which a document reaches the file
NChunks == 2

\* 1.000 in mills: the low end of the enumerated closing prices
BaseMills == 1000

\* the closing prices of the documented scenario: 4950.000 and 5000.000
ScenarioPrices == {4950000, 5000000}

\* two closes of an index less than a cent apart from a multiple of a cent: 4995.000, 4995.749
NearPrices == {4995000, 4995749}

\* two closes of one frame are of the same group: consecutive sessions close near each
\* other (and the products below stay within TLC's 32-bit integers)
PriceGroups == {ScenarioPrices, NearPrices, BaseMills .. BaseMills + MaxMills}

Prices == UNION PriceGroups

(***************************************************************************)
(* data_scrapers.py                                                        *)
(***************************************************************************)
\* An answer of Ticker.history(): it raised, or a frame of 0, 1 or 2 closes (oldest first).
FetchRaised == [raised |-> TRUE, close |-> << >>]

Frame(c) == [raised |-> FALSE, close |-> c]

Frames == {Frame(<< >>)} \cup {Frame(<<p>>) : p \in Prices}
              \cup UNION {{Frame(<<p, q>>) : p \in g, q \in g} : g \in PriceGroups}

Answers == {FetchRaised} \cup Frames

\* "N/A", or a number
NA == [na |-> TRUE, v |-> 0]

Num(n) == [na |-> FALSE, v |-> n]

\* n / d rounded to the nearest integer, ties to even (d > 0): Python's round()
RoundDiv(n, d) ==
    LET q == n \div d
        r == n % d
    IN  IF 2 * r < d THEN q
        ELSE IF 2 * r > d THEN q + 1
        ELSE IF q % 2 = 0 THEN q ELSE q + 1

\* round(x, 2) of x given in mills, in hundredths
round2(x) == RoundDiv(x, 10)

tickers == [name \in {"S&P 500", "Dow Jones", "Nasdaq"} |->
               CASE name = "S&P 500" -> "^GSPC"
                 [] name = "Dow Jones" -> "^DJI"
                 [] OTHER -> "^IXIC"]

Unavailable == [price |-> NA, prev_close |-> NA, change |-> NA, change_pct |-> NA]

\* faulty variant: the percentage is taken of the latest price, not of the previous close
quote_pct_of_last(a) ==
    IF a.raised \/ Len(a.close) = 0
    THEN Unavailable
    ELSE LET n == Len(a.close)
             last_price == a.close[n]
             prev_close == IF n < 2 THEN last_price ELSE a.close[n - 1]
             change == last_price - prev_close
         IN  [price      |-> Num(round2(last_price)),
              prev_close |-> Num(round2(prev_close)),
              change     |-> Num(round2(change)),
              change_pct |-> Num(RoundDiv(change * 10000, last_price))]

\* faulty variant: no branch for a frame of fewer than two rows, so .iloc[-2] raises
quote_no_short_branch(a) ==
    IF a.raised \/ Len(a.close) < 2
    THEN Unavailable
    ELSE LET last_price == a.close[2]
             prev_close == a.close[1]
             change == last_price - prev_close
         IN  [price      |-> Num(round2(last_price)),
              prev_close |-> Num(round2(prev_close)),
              change     |-> Num(round2(change)),
              change_pct |-> Num(RoundDiv(change * 10000, prev_close))]

\* The body of the loop of get_stock_quotes for one index.  history() raising, and
\* .iloc[-1] of an empty frame (IndexError), end in the except branch.
quote(a) ==
    IF a.raised \/ Len(a.close) = 0
    THEN Unavailable
    ELSE LET n == Len(a.close)
             last_price == a.close[n]
             prev_close == IF n < 2 THEN last_price ELSE a.close[n - 1]
             change == last_price - prev_close
         IN  [price      |-> Num(round2(last_price)),
              prev_close |-> Num(round2(prev_close)),
              change     |-> Num(round2(change)),
              change_pct |-> Num(RoundDiv(change * 10000, prev_close))]

\* the indices in the order the loop visits them
TickerOrder == <<"S&P 500", "Dow Jones", "Nasdaq">>

\* faulty variant: one try around the whole loop; the first exception ends the loop
quotes_one_try(h) ==
    LET bad == {i \in 1..3 : h[TickerOrder[i]].raised \/ Len(h[TickerOrder[i]].close) = 0}
        done == IF bad = {} THEN 3 ELSE (CHOOSE i \in bad : \A j \in bad : i <= j) - 1
    IN  [name \in {TickerOrder[i] : i \in 1..done} |-> quote(h[name])]

get_stock_quotes(h) == [name \in DOMAIN tickers |-> quote(h[name])]

\* .iloc[-1] of the frame history(period="1d") answered: raises when history raised or
\* the frame is empty
LastCloseRaises(a) == a.raised \/ Len(a.close) = 0

get_treasury_yield(tnx) ==
    IF LastCloseRaises(tnx)
    THEN [raised |-> TRUE, value |-> 0]
    ELSE [raised |-> FALSE, value |-> tnx.close[Len(tnx.close)]]

assess_yield_curve(tnx, irx) ==
    IF LastCloseRaises(tnx) \/ LastCloseRaises(irx)
    THEN [raised |-> TRUE, spread |-> 0, status |-> "Normal"]
    ELSE LET spread == tnx.close[Len(tnx.close)] - irx.close[Len(irx.close)]
         IN  [raised |-> FALSE, spread |-> spread,
              status |-> IF spread < 0 THEN "Inverted" ELSE "Normal"]

(***************************************************************************)
(* agents.py: the environment of a run                                     *)
(***************************************************************************)
\* what llm.complete(prompt).text may be (the model may answer with no text)
Texts == {"", "text"}

\* llm.complete, and the Tavily search: an answer or an exception
LLMAnswers == {[raised |-> TRUE, text |-> ""]} \cup {[raised |-> FALSE, text |-> t] : t \in Texts}

\* what ^TNX and ^IRX answer to history(period="1d") within a run
YieldAnswers == {FetchRaised, Frame(<< >>), Frame(<<BaseMills>>)}

\* what the quote API answers within a run: at most one index fails
PipelineHists ==
    {h \in [DOMAIN tickers -> {FetchRaised, Frame(<<BaseMills, BaseMills + 1>>)}] :
        Cardinality({n \in DOMAIN tickers : h[n].raised}) <= 1}

\* os.getenv("REPORT_PATH"): None, or a string
None == "(None)"

\* a path that can be opened for writing, and one whose directory does not exist
GoodPath == "out/report.html"

BadPath == "no_such_dir/report.html"

ReportPaths == {None, "", GoodPath, BadPath}

(***************************************************************************)
(* agents.py: the agents and the workflow                                  *)
(***************************************************************************)
AgentNames == {"NewsAgent", "ForecastAgent", "ReportAgent"}

\* faulty variant: the report stage may hand back to the news stage
can_handoff_to_cyclic ==
    [a \in AgentNames |->
        CASE a = "NewsAgent" -> {"ForecastAgent"}
          [] a = "ForecastAgent" -> {"ReportAgent"}
          [] OTHER -> {"NewsAgent"}]

can_handoff_to ==
    [a \in AgentNames |->
        CASE a = "NewsAgent" -> {"ForecastAgent"}
          [] a = "ForecastAgent" -> {"ReportAgent"}
          [] OTHER -> {}]

tools ==
    [a \in AgentNames |->
        CASE a = "NewsAgent" -> {"fetch_market_news"}
          [] a = "ForecastAgent" -> {"predict_market_trends"}
          [] OTHER -> {"format_report"}]

root_agent == "NewsAgent"

\* faulty variant: the run starts with notes left in the initial state
initial_state_with_notes ==
    [research_notes  |-> "text",
     market_forecast |-> "Not generated yet.",
     final_report    |-> <<"Not written yet.">>]

initial_state ==
    [research_notes  |-> "",
     market_forecast |-> "Not generated yet.",
     final_report    |-> <<"Not written yet.">>]

\* the file at REPORT_PATH
NoFile == [exists |-> FALSE, doc |-> << >>, written |-> 0]

\* a tool call's record
Call(tool, pre, result, completions, fetched, failed_at) ==
    [tool |-> tool, pre |-> pre, result |-> result, completions |-> completions,
     fetched |-> fetched, failed_at |-> failed_at]

NoCall == Call("none", initial_state, << >>, 0, FALSE, "none")

NoHandoff == [from |-> "none", to |-> "none", accepted |-> FALSE]

FmtIdle == [pc |-> "idle", doc |-> << >>]

Idle == [endpoint |-> "none", pc |-> "idle"]

NoResponse == [endpoint |-> "none", status |-> 0, kind |-> "none", text |-> "",
               content |-> NoFile, absent |-> FALSE]

\* the workflow runs the tool: the run is active, the active agent declares the tool, and
\* no other tool call is in progress
Dispatch(tool) ==
    /\ running = "active"
    /\ tool \in tools[current_agent]
    /\ fmt.pc = "idle"

\* an exception leaves a tool function: either it ends the run or the workflow hands it to
\* the agent as the tool's result
OnToolError == {"active", "aborted"}

\* the tool raised at `at` having issued `completions` completion calls
ToolRaised(tool, at, completions, fetched) ==
    /\ lastCall' = Call(tool, state, <<"raised", at>>, completions, fetched, at)
    /\ running' \in OnToolError
    /\ UNCHANGED <<state, wrote>>

fetch_market_news ==
    /\ Dispatch("fetch_market_news")
    /\ \E search \in LLMAnswers, llm \in LLMAnswers :
          IF search.raised
          THEN ToolRaised("fetch_market_news", "search", 0, FALSE)
          ELSE IF llm.raised
          THEN ToolRaised("fetch_market_news", "llm", 1, FALSE)
          ELSE /\ state' = [state EXCEPT !.research_notes = llm.text]
               /\ wrote' = wrote \cup {"research_notes"}
               /\ lastCall' = Call("fetch_market_news", state,
                                   <<"News summary generated.">>, 1, FALSE, "none")
               /\ UNCHANGED running
    /\ UNCHANGED <<quoteVars, report_path, current_agent, trail, lastHandoff, fmt,
                   file, serverVars>>

NoData == <<"No data available to generate forecast.">>

\* predict_market_trends past its guard: the three fetches, the prompt, the completion
Forecast ==
    \E tnx \in YieldAnswers :
       IF get_treasury_yield(tnx).raised
       THEN ToolRaised("predict_market_trends", "get_treasury_yield", 0, TRUE)
       ELSE \E tnx2 \in YieldAnswers, irx \in YieldAnswers :
          IF assess_yield_curve(tnx2, irx).raised
          THEN ToolRaised("predict_market_trends", "assess_yield_curve", 0, TRUE)
          ELSE \E h \in PipelineHists, llm \in LLMAnswers :
             IF DOMAIN get_stock_quotes(h) # DOMAIN tickers
             THEN ToolRaised("predict_market_trends", "stock_quotes", 0, TRUE)
             ELSE IF llm.raised
             THEN ToolRaised("predict_market_trends", "llm", 1, TRUE)
             ELSE /\ state' = [state EXCEPT !.market_forecast = llm.text]
                  /\ wrote' = wrote \cup {"market_forecast"}
                  /\ lastCall' = Call("predict_market_trends", state,
                                      <<"handoff_to", "ReportAgent", llm.text>>,
                                      1, TRUE, "none")
                  /\ UNCHANGED running

\* faulty variant: no guard on empty research notes
predict_market_trends_unguarded ==
    /\ Dispatch("predict_market_trends")
    /\ Forecast
    /\ UNCHANGED <<quoteVars, report_path, current_agent, trail, lastHandoff, fmt, file,
                   serverVars>>

predict_market_trends ==
    /\ Dispatch("predict_market_trends")
    /\ IF state.research_notes = ""
       THEN /\ lastCall' = Call("predict_market_trends", state, NoData, 0, FALSE, "none")
            /\ UNCHANGED <<state, wrote, running>>
       ELSE Forecast
    /\ UNCHANGED <<quoteVars, report_path, current_agent, trail, lastHandoff, fmt, file,
                   serverVars>>

\* the cell of the quote table for one index
format_change(change, change_pct) ==
    IF change.na \/ change_pct.na THEN "N/A"
    ELSE IF change.v > 0 THEN "green"
    ELSE IF change.v < 0 THEN "red"
    ELSE "black"

\* final_html: the prose of the notes and the forecast, and the quote table
Render(research_notes, market_forecast, quotes) ==
    <<research_notes, market_forecast,
      [n \in DOMAIN quotes |-> <<quotes[n].price, quotes[n].prev_close,
                                 format_change(quotes[n].change, quotes[n].change_pct)>>]>>

FailedToSave(why) == <<"Failed to save report", why>>

\* faulty variant: state["final_report"] is assigned before the file is opened
format_report_open_stores_first ==
    /\ Dispatch("format_report")
    /\ \E h \in PipelineHists :
          LET final_html == Render(state.research_notes, state.market_forecast,
                                   get_stock_quotes(h))
          IN  IF report_path \in {None, ""}
              THEN /\ lastCall' = Call("format_report", state,
                                       FailedToSave("REPORT_PATH missing."),
                                       0, TRUE, "REPORT_PATH")
                   /\ UNCHANGED <<file, fmt, state>>
              ELSE IF report_path # GoodPath
              THEN /\ lastCall' = Call("format_report", state,
                                       FailedToSave("open"), 0, TRUE, "open")
                   /\ state' = [state EXCEPT !.final_report = final_html]
                   /\ UNCHANGED <<file, fmt>>
              ELSE /\ file' = [exists |-> TRUE, doc |-> final_html, written |-> 0]
                   /\ fmt' = [pc |-> "writing", doc |-> final_html]
                   /\ state' = [state EXCEPT !.final_report = final_html]
                   /\ UNCHANGED lastCall
    /\ UNCHANGED <<quoteVars, report_path, running, current_agent, trail, wrote,
                   lastHandoff, serverVars>>

\* format_report up to open(report_path, "w"), which creates or truncates the file
format_report_open ==
    /\ Dispatch("format_report")
    /\ \E h \in PipelineHists :
          LET final_html == Render(state.research_notes, state.market_forecast,
                                   get_stock_quotes(h))
          IN  IF report_path \in {None, ""}
              THEN /\ lastCall' = Call("format_report", state,
                                       FailedToSave("REPORT_PATH missing."),
                                       0, TRUE, "REPORT_PATH")
                   /\ UNCHANGED <<file, fmt>>
              ELSE IF report_path # GoodPath
              THEN /\ lastCall' = Call("format_report", state,
                                       FailedToSave("open"), 0, TRUE, "open")
                   /\ UNCHANGED <<file, fmt>>
              ELSE /\ file' = [exists |-> TRUE, doc |-> final_html, written |-> 0]
                   /\ fmt' = [pc |-> "writing", doc |-> final_html]
                   /\ UNCHANGED lastCall
    /\ UNCHANGED <<quoteVars, report_path, running, current_agent, trail, state, wrote,
                   lastHandoff, serverVars>>

\* f.write(final_html) reaches the file in NChunks steps; any of them may fail
format_report_write ==
    /\ fmt.pc = "writing"
    /\ file.written < NChunks
    /\ \E ok \in BOOLEAN :
          IF ok
          THEN /\ file' = [file EXCEPT !.written = @ + 1]
               /\ UNCHANGED <<lastCall, fmt>>
          ELSE /\ lastCall' = Call("format_report", state, FailedToSave("write"),
                                   0, TRUE, "write")
               /\ fmt' = FmtIdle
               /\ UNCHANGED file
    /\ UNCHANGED <<quoteVars, report_path, running, current_agent, trail, state,
                   wrote, lastHandoff, serverVars>>

\* the file is written and closed: the state is stored and the tool returns
format_report_store ==
    /\ fmt.pc = "writing"
    /\ file.written = NChunks
    /\ state' = [state EXCEPT !.final_report = fmt.doc]
    /\ wrote' = wrote \cup {"final_report"}
    /\ lastCall' = Call("format_report", state, <<"Report formatted successfully.">>,
                        0, TRUE, "none")
    /\ fmt' = FmtIdle
    /\ UNCHANGED <<quoteVars, report_path, running, current_agent, trail,
                   lastHandoff, file, serverVars>>

\* The active agent asks to hand off to `to`: taken when the agent declares the edge,
\* rejected otherwise.
Handoff ==
    /\ running = "active"
    /\ fmt.pc = "idle"
    /\ \E to \in AgentNames :
          IF to \in can_handoff_to[current_agent]
          THEN /\ current_agent' = to
               /\ trail' = Append(trail, to)
               /\ lastHandoff' = [from |-> current_agent, to |-> to, accepted |-> TRUE]
          ELSE /\ lastHandoff' = [from |-> current_agent, to |-> to, accepted |-> FALSE]
               /\ UNCHANGED <<current_agent, trail>>
    /\ UNCHANGED <<quoteVars, report_path, running, state, wrote, lastCall, fmt,
                   file, serverVars>>

\* the active agent answers without calling a tool: the run ends
Finish ==
    /\ running = "active"
    /\ fmt.pc = "idle"
    /\ running' = "done"
    /\ UNCHANGED <<quoteVars, report_path, current_agent, trail, state, wrote,
                   lastCall, lastHandoff, fmt, file, serverVars>>

(***************************************************************************)
(* flask_api.py                                                            *)
(***************************************************************************)
\* os.path.exists(report_path); of None it raises TypeError
PathExists == report_path = GoodPath /\ file.exists

Respond(endpoint, status, kind, text, content) ==
    [endpoint |-> endpoint, status |-> status, kind |-> kind, text |-> text,
     content |-> content, absent |-> ~file.exists]

HomeFallback == "<h1>No report available. Please generate one first.</h1>"

DownloadFallback == "<h1>PDF report not found. Generate the report first.</h1>"

\* GET /: the existence check
home ==
    /\ req = Idle
    /\ IF report_path = None
       THEN /\ response' = Respond("/", 500, "error", "TypeError", NoFile)
            /\ UNCHANGED req
       ELSE IF ~PathExists
       THEN /\ response' = Respond("/", 200, "message", HomeFallback, NoFile)
            /\ UNCHANGED req
       ELSE /\ req' = [endpoint |-> "/", pc |-> "checked"]
            /\ UNCHANGED response
    /\ UNCHANGED <<quoteVars, report_path, runVars, file>>

\* GET /: open, read and render the file
home_read ==
    /\ req = [endpoint |-> "/", pc |-> "checked"]
    /\ response' = Respond("/", 200, "file", "", file)
    /\ req' = Idle
    /\ UNCHANGED <<quoteVars, report_path, runVars, file>>

\* GET /download_pdf: the existence check
download_pdf ==
    /\ req = Idle
    /\ IF report_path = None
       THEN /\ response' = Respond("/download_pdf", 500, "error", "TypeError", NoFile)
            /\ UNCHANGED req
       ELSE IF ~PathExists
       THEN /\ response' = Respond("/download_pdf", 200, "message", DownloadFallback, NoFile)
            /\ UNCHANGED req
       ELSE /\ req' = [endpoint |-> "/download_pdf", pc |-> "checked"]
            /\ UNCHANGED response
    /\ UNCHANGED <<quoteVars, report_path, runVars, file>>

\* GET /download_pdf: send_file
download_pdf_send ==
    /\ req = [endpoint |-> "/download_pdf", pc |-> "checked"]
    /\ response' = Respond("/download_pdf", 200, "file", "", file)
    /\ req' = Idle
    /\ UNCHANGED <<quoteVars, report_path, runVars, file>>

(***************************************************************************)
(* A pipeline run (and the runs after it) with the server beside it.       *)
(***************************************************************************)
Init ==
    /\ hist = << >>
    /\ stock_data = << >>
    /\ report_path \in ReportPaths
    /\ running = "active"
    /\ current_agent = root_agent
    /\ trail = <<root_agent>>
    /\ state = initial_state
    /\ wrote = {}
    /\ lastCall = NoCall
    /\ lastHandoff = NoHandoff
    /\ fmt = FmtIdle
    /\ file = NoFile
    /\ req = Idle
    /\ response = NoResponse

Next ==
    \/ fetch_market_news
    \/ predict_market_trends
    \/ format_report_open
    \/ format_report_write
    \/ format_report_store
    \/ Handoff
    \/ Finish
    \/ home
    \/ home_read
    \/ download_pdf
    \/ download_pdf_send

Spec == Init /\ [][Next]_vars

(***************************************************************************)
(* The market-data provider on its own: any answers of the quote API, then  *)
(* one call of get_stock_quotes.                                           *)
(***************************************************************************)
NotFetched == << >>

InitQuotes ==
    /\ hist \in [DOMAIN tickers -> Answers]
    /\ stock_data = NotFetched
    /\ report_path = GoodPath
    /\ running = "done"
    /\ current_agent = root_agent
    /\ trail = <<root_agent>>
    /\ state = initial_state
    /\ wrote = {}
    /\ lastCall = NoCall
    /\ lastHandoff = NoHandoff
    /\ fmt = FmtIdle
    /\ file = NoFile
    /\ req = Idle
    /\ response = NoResponse

CallGetStockQuotes ==
    /\ stock_data = NotFetched
    /\ stock_data' = get_stock_quotes(hist)
    /\ UNCHANGED <<hist, report_path, runVars, file, serverVars>>

NextQuotes == CallGetStockQuotes

SpecQuotes == InitQuotes /\ [][NextQuotes]_vars

(***************************************************************************)
(* Properties of get_stock_quotes (checked under SpecQuotes)               *)
(***************************************************************************)
IndexNames == {"S&P 500", "Dow Jones", "Nasdaq"}

\* the fetch of one index failed: history() raised, or it found no session at all
FetchFailed(a) == a.raised \/ Len(a.close) = 0

IsNumeric(q) == ~q.price.na /\ ~q.prev_close.na /\ ~q.change.na /\ ~q.change_pct.na

\* the answers with every index but n answering one good session
OnlyIndex(n) == [m \in IndexNames |-> IF m = n THEN hist[n] ELSE Frame(<<BaseMills>>)]

\* C5: whatever each of the three indices answers, get_stock_quotes returns an entry for
\* all three names; an index whose fetch failed has "N/A" in all four fields, and an
\* index whose fetch succeeded has the numeric quote it has when no other index fails.
C5_PartialResults ==
    stock_data # NotFetched =>
        /\ DOMAIN stock_data = IndexNames
        /\ \A n \in IndexNames :
              IF FetchFailed(hist[n])
              THEN /\ stock_data[n].price = NA
                   /\ stock_data[n].prev_close = NA
                   /\ stock_data[n].change = NA
                   /\ stock_data[n].change_pct = NA
              ELSE /\ IsNumeric(stock_data[n])
                   /\ DOMAIN get_stock_quotes(OnlyIndex(n)) = IndexNames
                   /\ stock_data[n] = get_stock_quotes(OnlyIndex(n))[n]

\* C5 witness: the first index failed, the other two succeeded, and the call returned
C5_Witness ==
    /\ stock_data # NotFetched
    /\ hist["S&P 500"].raised
    /\ Len(hist["Dow Jones"].close) = 2
    /\ Len(hist["Nasdaq"].close) = 1

\* C7 as claimed: with fewer than two sessions (one, and also zero) the quote has
\* previous close equal to the latest price and a change of exactly zero.
C7_FewerThanTwoSessions ==
    stock_data # NotFetched =>
        \A n \in DOMAIN stock_data :
            (~hist[n].raised /\ Len(hist[n].close) < 2) =>
                /\ stock_data[n].prev_close = stock_data[n].price
                /\ stock_data[n].change = Num(0)

\* C7 amended: with exactly one session the quote is numeric, its previous close equals
\* its latest price and its change is exactly zero; with zero sessions the quote is
\* "N/A" in all four fields.
C7_OneSession ==
    stock_data # NotFetched =>
        \A n \in DOMAIN stock_data :
            /\ (~hist[n].raised /\ Len(hist[n].close) = 1) =>
                  /\ stock_data[n].price = Num(round2(hist[n].close[1]))
                  /\ stock_data[n].prev_close = stock_data[n].price
                  /\ stock_data[n].change = Num(0)
            /\ (~hist[n].raised /\ Len(hist[n].close) = 0) =>
                  stock_data[n] = Unavailable

\* C7 witness: a call that found one session for an index and none for another
C7_Witness ==
    /\ stock_data # NotFetched
    /\ hist["Nasdaq"] = Frame(<<BaseMills + 1>>)
    /\ hist["Dow Jones"] = Frame(<< >>)

Abs(x) == IF x < 0 THEN -x ELSE x

\* latest and previous close of an answered frame, in mills
Latest(a) == a.close[Len(a.close)]

Previous(a) == IF Len(a.close) < 2 THEN a.close[Len(a.close)] ELSE a.close[Len(a.close) - 1]

\* C8 as claimed: change = round(latest - previous, 2), and changePct =
\* round(change / previous * 100, 2) with change the reported (rounded) change.
C8_PctOfRoundedChange ==
    stock_data # NotFetched =>
        \A n \in DOMAIN stock_data :
            ~FetchFailed(hist[n]) =>
                /\ stock_data[n].change = Num(round2(Latest(hist[n]) - Previous(hist[n])))
                /\ stock_data[n].change_pct =
                      Num(RoundDiv(stock_data[n].change.v * 100000, Previous(hist[n])))

\* C8 amended: the reported change is latest - previous to the nearest hundredth, and the
\* reported changePct is (latest - previous) / previous * 100, of the difference as it is
\* before rounding, to the nearest hundredth; latest 5000 and previous 4950 give price
\* 5000.00, previous close 4950.00, change 50.00 and change_pct 1.01.
C8_PctOfExactChange ==
    stock_data # NotFetched =>
        \A n \in DOMAIN stock_data :
            ~FetchFailed(hist[n]) =>
                LET d == Latest(hist[n]) - Previous(hist[n])
                    q == stock_data[n]
                IN  /\ IsNumeric(q)
                    /\ 2 * Abs(10 * q.change.v - d) <= 10
                    /\ 2 * Abs(q.change_pct.v * Previous(hist[n]) - d * 10000)
                          <= Previous(hist[n])
                    /\ hist[n] = Frame(<<4950000, 5000000>>) =>
                          q = [price |-> Num(500000), prev_close |-> Num(495000),
                               change |-> Num(5000), change_pct |-> Num(101)]

\* C8 witness: the scenario's frame and a frame whose change is not a whole cent
C8_Witness ==
    /\ stock_data # NotFetched
    /\ hist["S&P 500"] = Frame(<<4950000, 5000000>>)
    /\ hist["Dow Jones"] = Frame(<<4995000, 4995749>>)
    /\ stock_data["Dow Jones"].change = Num(75)
    /\ stock_data["Dow Jones"].change_pct = Num(1)

(***************************************************************************)
(* Properties of a pipeline run and of the server (checked under Spec)     *)
(***************************************************************************)
DeclaredEdges == {<<"NewsAgent", "ForecastAgent">>, <<"ForecastAgent", "ReportAgent">>}

\* C1: the active stage starts at NewsAgent; every change of stage follows a declared
\* edge (NewsAgent to ForecastAgent, ForecastAgent to ReportAgent, none out of
\* ReportAgent); a hand-off requested to any other target is rejected and leaves the
\* active stage as it was; no stage is active a second time after it was left.
C1_HandoffGraph ==
    /\ trail[1] = "NewsAgent"
    /\ current_agent = trail[Len(trail)]
    /\ \A i \in 1 .. Len(trail) - 1 : <<trail[i], trail[i + 1]>> \in DeclaredEdges
    /\ \A i \in 1 .. Len(trail) : \A j \in 1 .. Len(trail) : i # j => trail[i] # trail[j]
    /\ lastHandoff.from # "none" =>
          /\ lastHandoff.accepted <=> <<lastHandoff.from, lastHandoff.to>> \in DeclaredEdges
          /\ lastHandoff.accepted => current_agent = lastHandoff.to
          /\ ~lastHandoff.accepted => current_agent = lastHandoff.from

\* C1 witness: the run went through the three stages and the report stage's request to
\* hand back to the news stage was rejected
C1_Witness ==
    /\ trail = <<"NewsAgent", "ForecastAgent", "ReportAgent">>
    /\ lastHandoff = [from |-> "ReportAgent", to |-> "NewsAgent", accepted |-> FALSE]
    /\ current_agent = "ReportAgent"

\* C2 as claimed: whenever forecast has read research_notes, summarize had stored a
\* summary there; whenever format has read research_notes and market_forecast, summarize
\* and forecast had written them.
C2_NoReadBeforeWrite ==
    /\ lastCall.tool = "predict_market_trends" => "research_notes" \in wrote
    /\ (lastCall.tool = "format_report" \/ fmt.pc = "writing") =>
          {"research_notes", "market_forecast"} \subseteq wrote

\* C2 amended: a tool reads the state only after every earlier stage has been active; a
\* field its stage has not written still holds its initial value when it is read (the
\* earlier stage may hand off without calling its tool); when forecast reads research
\* notes that are not empty summarize has stored them; and market_forecast is written only
\* after summarize has stored research_notes.
C2_ReadsFollowStages ==
    /\ lastCall.tool = "predict_market_trends" =>
          /\ SubSeq(trail, 1, 2) = <<"NewsAgent", "ForecastAgent">>
          /\ lastCall.pre.research_notes # "" => "research_notes" \in wrote
    /\ lastCall.tool = "format_report" =>
          /\ trail = <<"NewsAgent", "ForecastAgent", "ReportAgent">>
          /\ "research_notes" \notin wrote => lastCall.pre.research_notes = ""
          /\ "market_forecast" \notin wrote =>
                lastCall.pre.market_forecast = "Not generated yet."
    /\ "market_forecast" \in wrote => "research_notes" \in wrote

\* C2 witness: format has read both fields after summarize and forecast wrote them
C2_Witness ==
    /\ lastCall.tool = "format_report"
    /\ {"research_notes", "market_forecast"} \subseteq wrote
    /\ lastCall.pre.research_notes = "text"
    /\ lastCall.pre.market_forecast = "text"

\* C3: a forecast call that finds research_notes empty issues no completion call and no
\* market-data fetch, returns the fixed "No data available..." sentinel, does not raise
\* and leaves the state as it found it, market_forecast at its placeholder; a forecast
\* call that issued a completion call found research_notes not empty.
C3_EmptyNotesShortCircuit ==
    lastCall.tool = "predict_market_trends" =>
        /\ lastCall.pre.research_notes = "" =>
              /\ lastCall.completions = 0
              /\ ~lastCall.fetched
              /\ lastCall.result = <<"No data available to generate forecast.">>
              /\ lastCall.failed_at = "none"
              /\ state = lastCall.pre
              /\ state.market_forecast = "Not generated yet."
        /\ lastCall.completions > 0 => lastCall.pre.research_notes # ""

\* C3 witness: forecast was called after the news stage handed off without a summary
C3_Witness ==
    /\ lastCall.tool = "predict_market_trends"
    /\ lastCall.pre.research_notes = ""
    /\ lastCall.result = NoData
    /\ current_agent = "ForecastAgent"

\* C4: a format call that found no output path, or whose open or write failed, returned
\* a status containing "Failed to save report" and left final_report as it was before the
\* call; final_report differs from its placeholder only once a format call has written
\* the whole document to the file and stored it.
C4_FailedSaveLeavesReportUnset ==
    /\ lastCall.tool = "format_report" =>
          /\ report_path \in {None, ""} => lastCall.failed_at = "REPORT_PATH"
          /\ report_path = BadPath => lastCall.failed_at = "open"
          /\ lastCall.failed_at # "none" =>
                /\ lastCall.result[1] = "Failed to save report"
                /\ state.final_report = lastCall.pre.final_report
          /\ (lastCall.failed_at = "none" /\ fmt.pc = "idle") =>
                /\ lastCall.result = <<"Report formatted successfully.">>
                /\ file = [exists |-> TRUE, doc |-> state.final_report, written |-> NChunks]
    /\ "final_report" \notin wrote => state.final_report = <<"Not written yet.">>
    /\ "final_report" \in wrote => state.final_report # <<"Not written yet.">>

\* C4 witness: a write failed part way; the file is partial and final_report is unset
C4_Witness ==
    /\ lastCall.tool = "format_report"
    /\ lastCall.failed_at = "write"
    /\ file.exists /\ file.written = 1
    /\ state.final_report = <<"Not written yet.">>

\* C6 as claimed: a forecast call with research notes, whose completion call did not
\* fail, completes, writes market_forecast and leaves the run going, whichever
\* market-data fetch failed.
C6_FetchFailureConfined ==
    (/\ lastCall.tool = "predict_market_trends"
     /\ lastCall.pre.research_notes # ""
     /\ lastCall.failed_at # "llm") =>
        /\ lastCall.result[1] = "handoff_to"
        /\ "market_forecast" \in wrote
        /\ running # "aborted"

\* C9 as claimed: a request to either endpoint that finds no report file is answered with
\* the endpoint's fallback message and a normal status.
C9_FallbackWhenNoFile ==
    (response.endpoint # "none" /\ response.absent) =>
        /\ response.status = 200
        /\ response.kind = "message"
        /\ response.text = IF response.endpoint = "/" THEN HomeFallback ELSE DownloadFallback

\* C10 as claimed: with the output path configured, a render request beside a run
\* answers with the fallback message or with a whole document, never an empty or a
\* partly written one.
C10_WholeDocumentOrFallback ==
    (report_path = GoodPath /\ response.endpoint = "/") =>
        /\ response.status = 200
        /\ \/ response.kind = "message" /\ response.text = HomeFallback
           \/ response.kind = "file" /\ response.content.written = NChunks

====
